---- MODULE Spec2Model ----
(***************************************************************************)
(* Model of audio_level_analyzer.py: the per-file measurement              *)
(* (analyze_audio_level), the classifier (classify_level) and the batch    *)
(* scheduler (analyze_folder) with its ThreadPoolExecutor.                 *)
(*                                                                         *)
(* Decibel values are exact rationals [num, den] (value = num/den), so     *)
(* that the comparisons of classify_level are computed without rounding.   *)
(* Text is a sequence of one-character strings.                            *)
(***************************************************************************)
EXTENDS Integers, Sequences, FiniteSets, TLC

(***************************************************************************)
(* Bounds of the model.                                                    *)
(***************************************************************************)
\* classify_level is applied to every multiple of 1/ClsDen dB in -MaxAbsDb..0
MaxAbsDb == 52
ClsDen == 2
\* longest texts captured by ([-\d.]+) after mean_volume: and after max_volume:
MaxMeanCapLen == 3
MaxMaxCapLen == 2
\* number of entries the analysed folder may hold
MaxDirEntries == 4
\* widest worker pool
MaxWorkers == 3
\* longest list of Measurements given to process_corrections on its own
MaxResults == 3
\* number of entries of the folder whose discovery alone is checked
MaxDiscEntries == 6
\* number of entries of the folder given to main
MaxMainEntries == 3
\* number of entries of the folder analysed under fair scheduling
MaxLiveEntries == 3

(***************************************************************************)
(* Numbers.                                                                *)
(***************************************************************************)
RECURSIVE Pow10(_)
Pow10(n) == IF n = 0 THEN 1 ELSE 10 * Pow10(n - 1)

\* num/den < t for an integer literal t
Lt(v, t) == v.num < t * v.den

\* the float a decimal text denotes does not depend on trailing zeros
RECURSIVE Reduce(_)
Reduce(v) ==
    IF v.den > 1 /\ v.num % 10 = 0
    THEN Reduce([num |-> v.num \div 10, den |-> v.den \div 10])
    ELSE v

(***************************************************************************)
(* classify_level (lines 95-119).                                          *)
(***************************************************************************)
\* the elif chain with <= in place of <
classify_level_le(mean_db) ==
    IF mean_db.num <= -50 * mean_db.den
    THEN [label |-> "TRES BAS", color |-> "#ef4444", emoji |-> "U+1F507"]
    ELSE IF mean_db.num <= -42 * mean_db.den
    THEN [label |-> "BAS", color |-> "#f97316", emoji |-> "U+1F508"]
    ELSE IF mean_db.num <= -36 * mean_db.den
    THEN [label |-> "MOYEN-", color |-> "#eab308", emoji |-> "U+1F509"]
    ELSE IF mean_db.num <= -30 * mean_db.den
    THEN [label |-> "MOYEN", color |-> "#22c55e", emoji |-> "U+1F50A"]
    ELSE IF mean_db.num <= -24 * mean_db.den
    THEN [label |-> "MOYEN+", color |-> "#10b981", emoji |-> "U+1F50A"]
    ELSE [label |-> "ELEVE", color |-> "#3b82f6", emoji |-> "U+1F4E2"]

\* the elif chain with the results of the -42 and -36 branches exchanged
classify_level_swapped(mean_db) ==
    IF Lt(mean_db, -50)
    THEN [label |-> "TRES BAS", color |-> "#ef4444", emoji |-> "U+1F507"]
    ELSE IF Lt(mean_db, -42)
    THEN [label |-> "MOYEN-", color |-> "#eab308", emoji |-> "U+1F509"]
    ELSE IF Lt(mean_db, -36)
    THEN [label |-> "BAS", color |-> "#f97316", emoji |-> "U+1F508"]
    ELSE IF Lt(mean_db, -30)
    THEN [label |-> "MOYEN", color |-> "#22c55e", emoji |-> "U+1F50A"]
    ELSE IF Lt(mean_db, -24)
    THEN [label |-> "MOYEN+", color |-> "#10b981", emoji |-> "U+1F50A"]
    ELSE [label |-> "ELEVE", color |-> "#3b82f6", emoji |-> "U+1F4E2"]

\* The labels are written without accents (TRES BAS, ELEVE) and the emoji
\* by its code point.
classify_level(mean_db) ==
    IF Lt(mean_db, -50)
    THEN [label |-> "TRES BAS", color |-> "#ef4444", emoji |-> "U+1F507"]
    ELSE IF Lt(mean_db, -42)
    THEN [label |-> "BAS", color |-> "#f97316", emoji |-> "U+1F508"]
    ELSE IF Lt(mean_db, -36)
    THEN [label |-> "MOYEN-", color |-> "#eab308", emoji |-> "U+1F509"]
    ELSE IF Lt(mean_db, -30)
    THEN [label |-> "MOYEN", color |-> "#22c55e", emoji |-> "U+1F50A"]
    ELSE IF Lt(mean_db, -24)
    THEN [label |-> "MOYEN+", color |-> "#10b981", emoji |-> "U+1F50A"]
    ELSE [label |-> "ELEVE", color |-> "#3b82f6", emoji |-> "U+1F4E2"]

\* the six bands, lowest first
Bands == <<"TRES BAS", "BAS", "MOYEN-", "MOYEN", "MOYEN+", "ELEVE">>
BandRank(label) == CHOOSE i \in DOMAIN Bands : Bands[i] = label

(***************************************************************************)
(* Text captured from the tool's diagnostic output, and float().           *)
(***************************************************************************)
Digits == {"0", "1", "2", "3", "4", "5", "6", "7", "8", "9"}
IsDigit(c) == c \in Digits
DigitVal(c) ==
    CASE c = "0" -> 0 [] c = "1" -> 1 [] c = "2" -> 2 [] c = "3" -> 3
      [] c = "4" -> 4 [] c = "5" -> 5 [] c = "6" -> 6 [] c = "7" -> 7
      [] c = "8" -> 8 [] c = "9" -> 9

RECURSIVE DigitsToInt(_)
DigitsToInt(ds) ==
    IF ds = <<>> THEN 0
    ELSE 10 * DigitsToInt(SubSeq(ds, 1, Len(ds) - 1)) + DigitVal(ds[Len(ds)])

\* the text after an optional leading minus sign
Unsigned(s) == IF s # <<>> /\ s[1] = "-" THEN Tail(s) ELSE s
DotsOf(s) == {i \in DOMAIN s : s[i] = "."}

\* float(s) of line 75 and 76 for a text s over [-0-9.]: whether it parses
\* (an optional sign, digits with at most one point, at least one digit) ...
float_ok(s) ==
    LET body == Unsigned(s) IN
    /\ \A i \in DOMAIN body : IsDigit(body[i]) \/ body[i] = "."
    /\ Cardinality(DotsOf(body)) <= 1
    /\ \E i \in DOMAIN body : IsDigit(body[i])

\* ... and the number it yields
float_value(s) ==
    LET body == Unsigned(s)
        n == DigitsToInt(SelectSeq(body, IsDigit))
        fracLen == IF DotsOf(body) = {} THEN 0
                   ELSE Len(body) - (CHOOSE i \in DotsOf(body) : TRUE)
    IN Reduce([num |-> IF s[1] = "-" THEN -n ELSE n, den |-> Pow10(fracLen)])

\* re.search found nothing: the group ([-\d.]+) is never empty when it matches
NoMatch == <<>>

(***************************************************************************)
(* One run of the external tool, as subprocess.run (lines 60-65) sees it:  *)
(* kind "completed" with an exit code and the two texts the searches of    *)
(* lines 69-70 capture in stderr (NoMatch when the marker is not there),   *)
(* or an exception raised by subprocess.run.                               *)
(***************************************************************************)
Completed(rc, mean_cap, max_cap) ==
    [kind |-> "completed", returncode |-> rc,
     mean_volume |-> mean_cap, max_volume |-> max_cap, msg |-> ""]
Raised(type, msg) ==
    [kind |-> type, returncode |-> 0,
     mean_volume |-> NoMatch, max_volume |-> NoMatch, msg |-> msg]

\* the process outlived timeout=300
TimedOut == Raised("TimeoutExpired", "timed out after 300 seconds")
\* the executable could not be started
SpawnFailure == Raised("FileNotFoundError", "No such file or directory: ffmpeg")
\* stderr is not text (text=True decodes it)
DecodeFailure == Raised("UnicodeDecodeError", "codec can't decode byte")

\* every exception subprocess.run and float raise derives from Exception
ExceptionTypes ==
    {"TimeoutExpired", "FileNotFoundError", "UnicodeDecodeError", "ValueError",
     "CalledProcessError"}

Return(value) == [kind |-> "return", value |-> value]
Raise(type, msg) == [kind |-> "raise", type |-> type, msg |-> msg]
\* the call has not ended
NoResult == [kind |-> "none"]

\* a path of the analysed folder; str(path) is the path itself
PathOf(name) == [parent |-> "folder", name |-> name]

(***************************************************************************)
(* Measurements: 'error' in r (lines 179, 501, 601).                       *)
(***************************************************************************)
IsFailure(r) == "error" \in DOMAIN r
IsSuccess(r) == "error" \notin DOMAIN r
\* the three messages the function writes itself; any other error text is
\* str(e) of the exception caught at line 91
OwnMessages == {"Fichier non trouve", "Pas de piste audio", "Timeout"}
BothMarkers(run) == run.mean_volume # NoMatch /\ run.max_volume # NoMatch

(***************************************************************************)
(* analyze_audio_level (lines 44-92).                                      *)
(***************************************************************************)
\* lines 47-49 without the "not"
path_check_inverted(path, exists) ==
    IF exists
    THEN [spawn |-> FALSE,
          out |-> Return([fichier |-> path.name, error |-> "Fichier non trouve"])]
    ELSE [spawn |-> TRUE, out |-> NoResult]

\* lines 47-57: the result when the path does not exist, else the command
\* is built and the tool is run
path_check(path, exists) ==
    IF ~exists
    THEN [spawn |-> FALSE,
          out |-> Return([fichier |-> path.name, error |-> "Fichier non trouve"])]
    ELSE [spawn |-> TRUE, out |-> NoResult]

\* the body of the try with the exit code tested first
try_body_checks_returncode(path, run) ==
    IF run.kind # "completed" THEN Raise(run.kind, run.msg)
    ELSE IF run.returncode # 0 THEN Raise("CalledProcessError", "non-zero exit status")
    ELSE IF run.mean_volume = NoMatch \/ run.max_volume = NoMatch
    THEN Return([fichier |-> path.name, error |-> "Pas de piste audio"])
    ELSE IF ~float_ok(run.mean_volume) \/ ~float_ok(run.max_volume)
    THEN Raise("ValueError", "could not convert string to float")
    ELSE Return([fichier |-> path.name, chemin |-> path,
                 niveau_moyen_db |-> float_value(run.mean_volume),
                 niveau_max_db |-> float_value(run.max_volume),
                 classification |-> classify_level(float_value(run.mean_volume)).label,
                 color |-> classify_level(float_value(run.mean_volume)).color,
                 emoji |-> classify_level(float_value(run.mean_volume)).emoji])

\* the body of the try with "and" in place of "or" at line 72, and a
\* missing capture read as 0
try_body_and(path, run) ==
    IF run.kind # "completed" THEN Raise(run.kind, run.msg)
    ELSE IF run.mean_volume = NoMatch /\ run.max_volume = NoMatch
    THEN Return([fichier |-> path.name, error |-> "Pas de piste audio"])
    ELSE LET mean_txt == IF run.mean_volume = NoMatch THEN <<"0">> ELSE run.mean_volume
             max_txt == IF run.max_volume = NoMatch THEN <<"0">> ELSE run.max_volume
         IN
         IF ~float_ok(mean_txt) \/ ~float_ok(max_txt)
         THEN Raise("ValueError", "could not convert string to float")
         ELSE Return([fichier |-> path.name, chemin |-> path,
                      niveau_moyen_db |-> float_value(mean_txt),
                      niveau_max_db |-> float_value(max_txt),
                      classification |-> classify_level(float_value(mean_txt)).label,
                      color |-> classify_level(float_value(mean_txt)).color,
                      emoji |-> classify_level(float_value(mean_txt)).emoji])

\* the body of the try with line 77 classifying max_db
try_body_classifies_max(path, run) ==
    IF run.kind # "completed" THEN Raise(run.kind, run.msg)
    ELSE IF run.mean_volume = NoMatch \/ run.max_volume = NoMatch
    THEN Return([fichier |-> path.name, error |-> "Pas de piste audio"])
    ELSE IF ~float_ok(run.mean_volume) \/ ~float_ok(run.max_volume)
    THEN Raise("ValueError", "could not convert string to float")
    ELSE Return([fichier |-> path.name, chemin |-> path,
                 niveau_moyen_db |-> float_value(run.mean_volume),
                 niveau_max_db |-> float_value(run.max_volume),
                 classification |-> classify_level(float_value(run.max_volume)).label,
                 color |-> classify_level(float_value(run.max_volume)).color,
                 emoji |-> classify_level(float_value(run.max_volume)).emoji])

\* lines 60-87, the body of the try: subprocess.run raises or completes (its
\* exit code is not read), the two searches, the two float() and the result
try_body(path, run) ==
    IF run.kind # "completed" THEN Raise(run.kind, run.msg)
    ELSE IF run.mean_volume = NoMatch \/ run.max_volume = NoMatch
    THEN Return([fichier |-> path.name, error |-> "Pas de piste audio"])
    ELSE IF ~float_ok(run.mean_volume) \/ ~float_ok(run.max_volume)
    THEN Raise("ValueError", "could not convert string to float")
    ELSE Return([fichier |-> path.name, chemin |-> path,
                 niveau_moyen_db |-> float_value(run.mean_volume),
                 niveau_max_db |-> float_value(run.max_volume),
                 classification |-> classify_level(float_value(run.mean_volume)).label,
                 color |-> classify_level(float_value(run.mean_volume)).color,
                 emoji |-> classify_level(float_value(run.mean_volume)).emoji])

\* the handlers with "except ValueError" in place of "except Exception"
except_clauses_narrow(path, r) ==
    IF r.kind = "raise" /\ r.type = "TimeoutExpired"
    THEN Return([fichier |-> path.name, error |-> "Timeout"])
    ELSE IF r.kind = "raise" /\ r.type = "ValueError"
    THEN Return([fichier |-> path.name, error |-> r.msg])
    ELSE r

\* the handlers in the other order: "except Exception" first
except_clauses_reordered(path, r) ==
    IF r.kind = "raise" /\ r.type \in ExceptionTypes
    THEN Return([fichier |-> path.name, error |-> r.msg])
    ELSE IF r.kind = "raise" /\ r.type = "TimeoutExpired"
    THEN Return([fichier |-> path.name, error |-> "Timeout"])
    ELSE r

\* lines 89-92, the two except clauses applied to what the body did
except_clauses(path, r) ==
    IF r.kind = "raise" /\ r.type = "TimeoutExpired"
    THEN Return([fichier |-> path.name, error |-> "Timeout"])
    ELSE IF r.kind = "raise" /\ r.type \in ExceptionTypes
    THEN Return([fichier |-> path.name, error |-> r.msg])
    ELSE r

\* lines 59-92: what the call does once the tool has run
after_run(path, run) == except_clauses(path, try_body(path, run))

(***************************************************************************)
(* File names: ordering, upper case, glob.                                 *)
(***************************************************************************)
\* ord() of the characters file names are written with here
Ord(c) ==
    CASE c = "." -> 46 [] c = "4" -> 52
      [] c = "A" -> 65 [] c = "B" -> 66 [] c = "C" -> 67 [] c = "E" -> 69
      [] c = "M" -> 77 [] c = "N" -> 78 [] c = "P" -> 80
      [] c = "T" -> 84 [] c = "V" -> 86 [] c = "W" -> 87 [] c = "X" -> 88
      [] c = "a" -> 97 [] c = "b" -> 98 [] c = "c" -> 99 [] c = "e" -> 101
      [] c = "m" -> 109 [] c = "n" -> 110 [] c = "p" -> 112 [] c = "t" -> 116
      [] c = "v" -> 118 [] c = "w" -> 119 [] c = "x" -> 120

\* str < str: by code points, a proper prefix first
RECURSIVE StrLess(_, _)
StrLess(s, t) ==
    IF t = <<>> THEN FALSE
    ELSE IF s = <<>> THEN TRUE
    ELSE IF Ord(s[1]) # Ord(t[1]) THEN Ord(s[1]) < Ord(t[1])
    ELSE StrLess(Tail(s), Tail(t))

\* str.upper() (line 145)
UpperChar(c) ==
    CASE c = "a" -> "A" [] c = "b" -> "B" [] c = "c" -> "C" [] c = "e" -> "E"
      [] c = "m" -> "M" [] c = "n" -> "N" [] c = "p" -> "P" [] c = "t" -> "T"
      [] c = "v" -> "V" [] c = "w" -> "W" [] c = "x" -> "X"
      [] OTHER -> c
Upper(s) == [i \in DOMAIN s |-> UpperChar(s[i])]

EndsWith(name, suffix) ==
    /\ Len(suffix) <= Len(name)
    /\ SubSeq(name, Len(name) - Len(suffix) + 1, Len(name)) = suffix

\* folder.glob("*" + pattern_end): the entries whose name ends with it,
\* compared character by character
Glob(listing, pattern_end) == {n \in listing : EndsWith(n, pattern_end)}

\* sorted(set): the ascending sequence of a set of names
RECURSIVE SortedSeq(_)
SortedSeq(S) ==
    IF S = {} THEN <<>>
    ELSE LET least == CHOOSE n \in S : \A o \in S \ {n} : StrLess(n, o)
         IN <<least>> \o SortedSeq(S \ {least})

\* lines 142-147: both globs of every extension, without duplicates, sorted
DiscoverFiles(listing, extensions) ==
    SortedSeq(UNION {Glob(listing, extensions[i]) \cup Glob(listing, Upper(extensions[i]))
                     : i \in DOMAIN extensions})

\* the key of line 171: x.get('fichier', '')
SortKey(r) == IF "fichier" \in DOMAIN r THEN r.fichier ELSE <<>>

\* list.sort(key=...) is stable: the place of the element at i is the
\* number of elements with a smaller key, or with the same key and before i
KeyRank(rs, i) ==
    1 + Cardinality({j \in DOMAIN rs :
                       \/ StrLess(SortKey(rs[j]), SortKey(rs[i]))
                       \/ SortKey(rs[j]) = SortKey(rs[i]) /\ j < i})

SortByKey(rs) ==
    IF rs = <<>> THEN <<>>
    ELSE [p \in DOMAIN rs |-> rs[CHOOSE i \in DOMAIN rs : KeyRank(rs, i) = p]]

(***************************************************************************)
(* State.                                                                  *)
(***************************************************************************)
VARIABLES
    cls_pc,      \* "input" | "done": the classifier run
    mean_a,      \* first argument given to classify_level
    mean_b,      \* second argument given to classify_level
    level_a,     \* classify_level(mean_a), once computed
    level_b,     \* classify_level(mean_b), once computed
    m_pc,        \* "call" | "running" | "done": one call of analyze_audio_level
    m_path,      \* its argument
    m_exists,    \* whether the path exists when the call starts
    m_run,       \* what the external tool did, once it has run
    m_out,       \* what the call returned or raised
    m_spawned,   \* number of subprocess.run invocations of the call
    pc,          \* where analyze_folder is: "start" | "submit" | "collect" |
                 \*   "returned" | "raised"
    is_dir,      \* folder.is_dir()
    listing,     \* the names of the folder's entries
    workers,     \* max_workers of the pool
    files,       \* the sorted list of discovered files (line 147)
    submitted,   \* number of files handed to executor.submit so far
    queue,       \* the pool's work queue: submitted jobs no worker has taken
    jobs,        \* per submitted file: its future (st, run, out)
    results,     \* the list of line 155
    completed,   \* the counter of line 156
    progress,    \* the arguments of the calls of print_progress_bar, in order
    yield_order, \* the jobs in the order as_completed yielded them
    ret,         \* the list analyze_folder returned
    c_pc,        \* where process_corrections is: "call" | "loop" |
                 \*   "transcoding" | "done" | "raised"
    c_results,   \* its argument results
    c_mode,      \* its argument mode
    c_value,     \* its argument value
    c_valid,     \* valid_results (line 501)
    c_outdir,    \* what is at the path of the output directory:
                 \*   "absent" | "dir" | "file"
    c_mkdirs,    \* what each call of output_dir.mkdir found at that path
    c_cmds,      \* the transcodes started so far, in order
    c_ended,     \* what apply_audio_correction returned for them, in order
    c_success,   \* the counter success (line 519)
    c_errors,    \* the counter errors (line 520)
    normalize_target,  \* main: the value of --normalize, or None
    boost_value        \* main: the value of --boost, or None

clsVars == <<cls_pc, mean_a, mean_b, level_a, level_b>>
measVars == <<m_pc, m_path, m_exists, m_run, m_out, m_spawned>>
batchVars == <<pc, is_dir, listing, workers, files, submitted, queue, jobs,
               results, completed, progress, yield_order, ret>>
corrVars == <<c_pc, c_results, c_mode, c_value, c_valid, c_outdir, c_mkdirs,
              c_cmds, c_ended, c_success, c_errors>>
mainVars == <<normalize_target, boost_value>>
vars == <<clsVars, measVars, batchVars, corrVars, mainVars>>

NoLevel == [label |-> "", color |-> "", emoji |-> ""]

(***************************************************************************)
(* Specification of the classifier: two arguments drawn from the bounded   *)
(* set, each classified.                                                   *)
(***************************************************************************)
ClassifyInputs ==
    {[num |-> n, den |-> ClsDen] : n \in (-(MaxAbsDb * ClsDen)) .. 0}

ClsInit ==
    /\ cls_pc = "input"
    /\ mean_a \in ClassifyInputs
    /\ mean_b \in ClassifyInputs
    /\ level_a = NoLevel
    /\ level_b = NoLevel

ClsIdle ==
    /\ cls_pc = "idle"
    /\ mean_a = [num |-> 0, den |-> 1]
    /\ mean_b = [num |-> 0, den |-> 1]
    /\ level_a = NoLevel
    /\ level_b = NoLevel

Classify ==
    /\ cls_pc = "input"
    /\ level_a' = classify_level(mean_a)
    /\ level_b' = classify_level(mean_b)
    /\ cls_pc' = "done"
    /\ UNCHANGED <<mean_a, mean_b>>

(***************************************************************************)
(* Specification of one call of analyze_audio_level: the path exists or    *)
(* not, and the tool does any of ToolRuns.                                 *)
(***************************************************************************)
CapChars == {"-", ".", "3", "5"}
Texts(n) == UNION {[1 .. k -> CapChars] : k \in 0 .. n}

ToolRuns ==
    {TimedOut, SpawnFailure, DecodeFailure}
    \cup {Completed(rc, a, b) :
            rc \in {0, 1}, a \in Texts(MaxMeanCapLen), b \in Texts(MaxMaxCapLen)}

NoRun == Raised("", "")
MeasurePaths == {PathOf(<<"a", ".", "m", "p">>), PathOf(<<"b", ".", "M", "P">>)}

MeasInit ==
    /\ m_pc = "call"
    /\ m_path \in MeasurePaths
    /\ m_exists \in BOOLEAN
    /\ m_run = NoRun
    /\ m_out = NoResult
    /\ m_spawned = 0

MeasIdle ==
    /\ m_pc = "idle"
    /\ m_path = PathOf(<<>>)
    /\ m_exists = FALSE
    /\ m_run = NoRun
    /\ m_out = NoResult
    /\ m_spawned = 0

\* lines 47-57: the existence test, then the tool is started
MeasureStart ==
    /\ m_pc = "call"
    /\ LET c == path_check(m_path, m_exists) IN
       IF c.spawn
       THEN /\ m_pc' = "running"
            /\ m_spawned' = m_spawned + 1
            /\ UNCHANGED m_out
       ELSE /\ m_pc' = "done"
            /\ m_out' = c.out
            /\ UNCHANGED m_spawned
    /\ UNCHANGED <<m_path, m_exists, m_run>>

\* lines 59-92: the tool ends in some way and the call ends
MeasureFinish ==
    /\ m_pc = "running"
    /\ \E run \in ToolRuns :
          /\ m_run' = run
          /\ m_out' = after_run(m_path, run)
    /\ m_pc' = "done"
    /\ UNCHANGED <<m_path, m_exists, m_spawned>>

(***************************************************************************)
(* analyze_folder (lines 131-173) and its ThreadPoolExecutor.              *)
(***************************************************************************)
\* the extensions of line 135 the folder's entries are written with
DefaultExtensions == << <<".", "m", "p", "4">>, <<".", "w", "a", "v">> >>

\* the entries a folder may hold
EntryNames ==
    << <<"a", ".", "m", "p", "4">>, <<"B", ".", "M", "P", "4">>,
       <<"c", ".", "w", "a", "v">>, <<"n", ".", "t", "x", "t">>,
       <<"e", ".", "W", "A", "V">>, <<"b", ".", "t", "x", "t">> >>
DirUniverse ==
    {EntryNames[i] : i \in {j \in DOMAIN EntryNames : j <= MaxDirEntries}}

\* what the tool does for a file of a batch
BatchRuns ==
    {TimedOut, SpawnFailure,
     Completed(0, <<"-", "3", "5">>, <<"-", "3">>),
     Completed(1, <<"-", "5", "3">>, <<"-", "5">>),
     Completed(0, <<"-">>, <<"-", "3">>),
     Completed(1, NoMatch, NoMatch)}

\* lines 137-150 without the test of line 149
early_return_no_empty_check(dir_ok, found) ==
    IF ~dir_ok THEN <<[error |-> "Dossier non trouve: folder"]>>
    ELSE <<>>

\* lines 137-150: the one-element list returned before any job is submitted,
\* or the empty sequence when the function goes on
early_return(dir_ok, found) ==
    IF ~dir_ok THEN <<[error |-> "Dossier non trouve: folder"]>>
    ELSE IF found = <<>> THEN <<[error |-> "Aucun fichier trouve dans folder"]>>
    ELSE <<>>

\* line 164 appending successes only
collect_result_successes(rs, result) ==
    IF IsSuccess(result) THEN Append(rs, result) ELSE rs

\* line 164
collect_result(rs, result) == Append(rs, result)

\* line 171 left out
sort_results_none(rs) == rs

\* line 171
sort_results(rs) == SortByKey(rs)

NoJob == [st |-> "pending", exists |-> FALSE, run |-> NoRun, out |-> NoResult]

BatchInit ==
    /\ pc = "start"
    /\ is_dir \in BOOLEAN
    /\ listing \in SUBSET DirUniverse
    /\ (~is_dir => listing = {})
    /\ workers \in 1 .. MaxWorkers
    /\ files = <<>>
    /\ submitted = 0
    /\ queue = <<>>
    /\ jobs = <<>>
    /\ results = <<>>
    /\ completed = 0
    /\ progress = <<>>
    /\ yield_order = <<>>
    /\ ret = <<>>

BatchIdle ==
    /\ pc = "idle"
    /\ is_dir = FALSE
    /\ listing = {}
    /\ workers = 1
    /\ files = <<>>
    /\ submitted = 0
    /\ queue = <<>>
    /\ jobs = <<>>
    /\ results = <<>>
    /\ completed = 0
    /\ progress = <<>>
    /\ yield_order = <<>>
    /\ ret = <<>>

\* lines 134-156: discovery, the two early returns, the empty results
Discover ==
    /\ pc = "start"
    /\ LET found == DiscoverFiles(listing, DefaultExtensions)
           early == early_return(is_dir, found)
       IN IF early # <<>>
          THEN /\ ret' = early
               /\ pc' = "returned"
               /\ UNCHANGED files
          ELSE /\ files' = found
               /\ pc' = "submit"
               /\ UNCHANGED ret
    /\ UNCHANGED <<is_dir, listing, workers, submitted, queue, jobs, results,
                   completed, progress, yield_order>>

\* line 160: executor.submit for the next file of the list; after the last
\* one the loop of line 162 starts
Submit ==
    /\ pc = "submit"
    /\ IF submitted < Len(files)
       THEN /\ submitted' = submitted + 1
            /\ queue' = Append(queue, submitted + 1)
            /\ jobs' = Append(jobs, NoJob)
            /\ UNCHANGED pc
       ELSE /\ pc' = "collect"
            /\ UNCHANGED <<submitted, queue, jobs>>
    /\ UNCHANGED <<is_dir, listing, workers, files, results, completed,
                   progress, yield_order, ret>>

Running == {i \in DOMAIN jobs : jobs[i].st = "running"}

\* a worker thread started for every queued job, whatever max_workers is
WorkerStart_unbounded ==
    /\ queue # <<>>
    /\ LET i == Head(queue) IN
       \E exists \in BOOLEAN :
         LET c == path_check(PathOf(files[i]), exists) IN
         jobs' = [jobs EXCEPT ![i] =
                    IF c.spawn
                    THEN [@ EXCEPT !.st = "running", !.exists = exists]
                    ELSE [@ EXCEPT !.st = "finished", !.exists = exists,
                                   !.out = c.out]]
    /\ queue' = Tail(queue)
    /\ UNCHANGED <<pc, is_dir, listing, workers, files, submitted, results,
                   completed, progress, yield_order, ret>>

\* worker threads that end after one job: only the first max_workers jobs
\* are ever taken from the queue
WorkerStart_one_job ==
    /\ queue # <<>>
    /\ Len(jobs) - Len(queue) < workers
    /\ LET i == Head(queue) IN
       \E exists \in BOOLEAN :
         LET c == path_check(PathOf(files[i]), exists) IN
         jobs' = [jobs EXCEPT ![i] =
                    IF c.spawn
                    THEN [@ EXCEPT !.st = "running", !.exists = exists]
                    ELSE [@ EXCEPT !.st = "finished", !.exists = exists,
                                   !.out = c.out]]
    /\ queue' = Tail(queue)
    /\ UNCHANGED <<pc, is_dir, listing, workers, files, submitted, results,
                   completed, progress, yield_order, ret>>

\* a free worker takes the oldest job of the queue and calls
\* analyze_audio_level up to the start of the tool (lines 47-57); the file
\* may have been removed since discovery
WorkerStart ==
    /\ queue # <<>>
    /\ Cardinality(Running) < workers
    /\ LET i == Head(queue) IN
       \E exists \in BOOLEAN :
         LET c == path_check(PathOf(files[i]), exists) IN
         jobs' = [jobs EXCEPT ![i] =
                    IF c.spawn
                    THEN [@ EXCEPT !.st = "running", !.exists = exists]
                    ELSE [@ EXCEPT !.st = "finished", !.exists = exists,
                                   !.out = c.out]]
    /\ queue' = Tail(queue)
    /\ UNCHANGED <<pc, is_dir, listing, workers, files, submitted, results,
                   completed, progress, yield_order, ret>>

\* the tool of a running job ends and the call returns or raises (lines
\* 59-92): the future is done
WorkerFinish ==
    /\ \E i \in Running, run \in BatchRuns :
         jobs' = [jobs EXCEPT ![i] =
                    [@ EXCEPT !.st = "finished", !.run = run,
                              !.out = after_run(PathOf(files[i]), run)]]
    /\ UNCHANGED <<pc, is_dir, listing, workers, files, submitted, queue,
                   results, completed, progress, yield_order, ret>>

\* lines 162-166 with the counter written from a value read before another
\* future finished: that update is lost
Collect_lost_update ==
    /\ pc = "collect"
    /\ \E i \in DOMAIN jobs :
         /\ jobs[i].st = "finished"
         /\ jobs' = [jobs EXCEPT ![i].st = "yielded"]
         /\ yield_order' = Append(yield_order, i)
         /\ IF jobs[i].out.kind = "return"
            THEN /\ results' = collect_result(results, jobs[i].out.value)
                 /\ completed' =
                      IF \E o \in DOMAIN jobs : o # i /\ jobs[o].st = "finished"
                      THEN completed ELSE completed + 1
                 /\ progress' = Append(progress, <<completed', Len(files)>>)
                 /\ UNCHANGED pc
            ELSE /\ pc' = "raised"
                 /\ UNCHANGED <<results, completed, progress>>
    /\ UNCHANGED <<is_dir, listing, workers, files, submitted, queue, ret>>

\* lines 162-166: as_completed yields a finished future; future.result()
\* returns the call's value or raises what the call raised, which ends
\* analyze_folder
Collect ==
    /\ pc = "collect"
    /\ \E i \in DOMAIN jobs :
         /\ jobs[i].st = "finished"
         /\ jobs' = [jobs EXCEPT ![i].st = "yielded"]
         /\ yield_order' = Append(yield_order, i)
         /\ IF jobs[i].out.kind = "return"
            THEN /\ results' = collect_result(results, jobs[i].out.value)
                 /\ completed' = completed + 1
                 /\ progress' = Append(progress, <<completed + 1, Len(files)>>)
                 /\ UNCHANGED pc
            ELSE /\ pc' = "raised"
                 /\ UNCHANGED <<results, completed, progress>>
    /\ UNCHANGED <<is_dir, listing, workers, files, submitted, queue, ret>>

\* lines 168-173: every future has been yielded; sort and return
ReturnResults ==
    /\ pc = "collect"
    /\ \A i \in DOMAIN jobs : jobs[i].st = "yielded"
    /\ results' = sort_results(results)
    /\ ret' = sort_results(results)
    /\ pc' = "returned"
    /\ UNCHANGED <<is_dir, listing, workers, files, submitted, queue, jobs,
                   completed, progress, yield_order>>

(***************************************************************************)
(* apply_audio_correction (lines 18-41) and process_corrections (lines     *)
(* 498-543).                                                               *)
(***************************************************************************)
\* a - b and a + b on exact values
Sub(a, b) == Reduce([num |-> a.num * b.den - b.num * a.den, den |-> a.den * b.den])
Add(a, b) == Reduce([num |-> a.num * b.den + b.num * a.den, den |-> a.den * b.den])
\* int(abs(v)) and int(v): the integer part, towards zero
Abs(v) == [num |-> IF v.num < 0 THEN -v.num ELSE v.num, den |-> v.den]
IntPart(v) == IF v.num < 0 THEN -((-v.num) \div v.den) ELSE v.num \div v.den

\* the transcode outlived timeout=600
TranscodeTimedOut == Raised("TimeoutExpired", "timed out after 600 seconds")
\* what the corrective transcode may do
TranscodeRuns ==
    {Completed(0, NoMatch, NoMatch), Completed(1, NoMatch, NoMatch),
     TranscodeTimedOut, SpawnFailure}

\* lines 32-41 without the except clause
apply_audio_correction_no_except(run) ==
    IF run.kind = "completed" THEN Return(run.returncode = 0)
    ELSE Raise(run.kind, run.msg)

\* lines 32-41: True when the tool exits with code 0, False when it exits
\* with another code or subprocess.run raises
apply_audio_correction(run) ==
    IF run.kind = "completed" THEN Return(run.returncode = 0)
    ELSE IF run.kind \in ExceptionTypes THEN Return(FALSE)
    ELSE Raise(run.kind, run.msg)

\* line 501 followed by a loop that starts at the second element
valid_results_skip_first(rs) ==
    IF SelectSeq(rs, IsSuccess) = <<>> THEN <<>> ELSE Tail(SelectSeq(rs, IsSuccess))

\* line 501
valid_results(rs) == SelectSeq(rs, IsSuccess)

\* lines 508-511: the output directory, named after the mode and the value
output_dir(mode, value) ==
    IF mode = "normalize"
    THEN [parent |-> "folder", name |-> <<"normalized_", IntPart(Abs(value)), "dB">>]
    ELSE [parent |-> "folder", name |-> <<"boosted_+", IntPart(value), "dB">>]

\* lines 524-527 with the subtraction the other way round
correction_gain_reversed(mode, value, r) ==
    IF mode = "normalize" THEN Sub(r.niveau_moyen_db, value) ELSE value

\* lines 524-527
correction_gain(mode, value, r) ==
    IF mode = "normalize" THEN Sub(value, r.niveau_moyen_db) ELSE value

\* lines 21-30 with lines 529-530: the transcode of one Measurement
TranscodeCmd(mode, value, r) ==
    [input |-> r.chemin,
     gain |-> correction_gain(mode, value, r),
     output |-> [parent |-> output_dir(mode, value), name |-> r.fichier]]

\* the values --normalize and --boost are given here
CorrValues ==
    {[num |-> -24, den |-> 1], [num |-> 10, den |-> 1], [num |-> -165, den |-> 10]}

\* what the tool did for a file of a list given to process_corrections
ResultRuns ==
    {TimedOut,
     Completed(0, <<"-", "3", "5">>, <<"-", "3">>),
     Completed(1, <<"-", "5", "3">>, <<"-", "5">>),
     Completed(1, NoMatch, NoMatch)}

\* the lists analyze_folder returns: the Measurements of the first n
\* files in name order, for each n, and the two one-element error lists
CorrFileNames ==
    SortedSeq({EntryNames[i] : i \in {1, 2, 3, 5}})
ResultSetsOf(n) ==
    {[i \in 1 .. n |-> after_run(PathOf(CorrFileNames[i]), runs[i]).value] :
        runs \in [1 .. n -> ResultRuns]}
ResultSets ==
    UNION {ResultSetsOf(n) :
             n \in {k \in 1 .. Len(CorrFileNames) : k <= MaxResults}}
    \cup {early_return(FALSE, <<>>), early_return(TRUE, <<>>)}

CorrInit ==
    /\ c_pc = "call"
    /\ c_results \in ResultSets
    /\ c_mode \in {"normalize", "boost"}
    /\ c_value \in CorrValues
    /\ c_valid = <<>>
    /\ c_outdir \in {"absent", "dir", "file"}
    /\ c_mkdirs = <<>>
    /\ c_cmds = <<>>
    /\ c_ended = <<>>
    /\ c_success = 0
    /\ c_errors = 0

CorrIdle ==
    /\ c_pc = "idle"
    /\ c_results = <<>>
    /\ c_mode = ""
    /\ c_value = [num |-> 0, den |-> 1]
    /\ c_valid = <<>>
    /\ c_outdir = "absent"
    /\ c_mkdirs = <<>>
    /\ c_cmds = <<>>
    /\ c_ended = <<>>
    /\ c_success = 0
    /\ c_errors = 0

\* line 513 without exist_ok=True: whatever is at the path is an error
mkdir_strict(at) ==
    IF at = "absent" THEN Return("dir")
    ELSE Raise("FileExistsError", "File exists")

\* line 513, Path.mkdir(exist_ok=True): the directory is made, a directory
\* already there is left alone, anything else there raises FileExistsError
mkdir(at) ==
    IF at = "file" THEN Raise("FileExistsError", "File exists")
    ELSE Return("dir")

\* lines 501-520: nothing to correct, or the output directory is made and
\* the counters start at 0; what mkdir raises ends process_corrections
CorrectStart ==
    /\ c_pc = "call"
    /\ IF valid_results(c_results) = <<>>
       THEN /\ c_pc' = "done"
            /\ UNCHANGED <<c_valid, c_outdir, c_mkdirs>>
       ELSE /\ c_mkdirs' = Append(c_mkdirs, c_outdir)
            /\ IF mkdir(c_outdir).kind = "return"
               THEN /\ c_valid' = valid_results(c_results)
                    /\ c_outdir' = mkdir(c_outdir).value
                    /\ c_pc' = "loop"
               ELSE /\ c_pc' = "raised"
                    /\ UNCHANGED <<c_valid, c_outdir>>
    /\ c_success' = 0
    /\ c_errors' = 0
    /\ UNCHANGED <<c_results, c_mode, c_value, c_cmds, c_ended>>

\* the loop of line 522 starting the next transcode before the last ended
TranscodeStart_no_wait ==
    /\ c_pc \in {"loop", "transcoding"}
    /\ Len(c_cmds) < Len(c_valid)
    /\ c_cmds' = Append(c_cmds, TranscodeCmd(c_mode, c_value, c_valid[Len(c_cmds) + 1]))
    /\ c_pc' = "transcoding"
    /\ UNCHANGED <<c_results, c_mode, c_value, c_valid, c_outdir, c_mkdirs,
                   c_ended, c_success, c_errors>>

\* lines 522-534 and 21-33: the next Measurement of valid_results, its gain,
\* its paths, and the transcode is started
TranscodeStart ==
    /\ c_pc = "loop"
    /\ Len(c_cmds) < Len(c_valid)
    /\ c_cmds' = Append(c_cmds, TranscodeCmd(c_mode, c_value, c_valid[Len(c_cmds) + 1]))
    /\ c_pc' = "transcoding"
    /\ UNCHANGED <<c_results, c_mode, c_value, c_valid, c_outdir, c_mkdirs,
                   c_ended, c_success, c_errors>>

\* lines 33-41 and 534-537: the transcode ends, apply_audio_correction
\* returns and one of the two counters is incremented
TranscodeEnd ==
    /\ c_pc = "transcoding"
    /\ \E run \in TranscodeRuns :
         LET r == apply_audio_correction(run) IN
         IF r.kind = "return"
         THEN /\ c_ended' = Append(c_ended, r.value)
              /\ c_success' = IF r.value THEN c_success + 1 ELSE c_success
              /\ c_errors' = IF r.value THEN c_errors ELSE c_errors + 1
              /\ c_pc' = "loop"
         ELSE /\ c_pc' = "raised"
              /\ UNCHANGED <<c_ended, c_success, c_errors>>
    /\ UNCHANGED <<c_results, c_mode, c_value, c_valid, c_outdir, c_mkdirs, c_cmds>>

\* lines 539-543: the loop is over
CorrectEnd ==
    /\ c_pc = "loop"
    /\ Len(c_cmds) = Len(c_valid)
    /\ c_pc' = "done"
    /\ UNCHANGED <<c_results, c_mode, c_value, c_valid, c_outdir, c_mkdirs,
                   c_cmds, c_ended, c_success, c_errors>>

(***************************************************************************)
(* main (lines 546-658), the branch of a directory.                        *)
(***************************************************************************)
\* an option that was not given; no number has the denominator 0
None == [num |-> 0, den |-> 0]

\* the default of the parameter workers (line 131), which main relies on
DefaultWorkers == 4

MainUniverse ==
    {EntryNames[i] : i \in {j \in DOMAIN EntryNames : j <= MaxMainEntries}}

MainIdle ==
    /\ normalize_target = None
    /\ boost_value = None

\* lines 572-595 and 627-629: the options are parsed, the target is a
\* directory and analyze_folder(target) is about to be called
MainInit ==
    /\ normalize_target \in {None, [num |-> -24, den |-> 1]}
    /\ boost_value \in {None, [num |-> 10, den |-> 1]}
    /\ pc = "start"
    /\ is_dir = TRUE
    /\ listing \in SUBSET MainUniverse
    /\ workers = DefaultWorkers
    /\ files = <<>>
    /\ submitted = 0
    /\ queue = <<>>
    /\ jobs = <<>>
    /\ results = <<>>
    /\ completed = 0
    /\ progress = <<>>
    /\ yield_order = <<>>
    /\ ret = <<>>

\* process_corrections called with the list being collected, before
\* analyze_folder has returned
MainCorrect_early ==
    /\ pc = "collect"
    /\ c_pc = "idle"
    /\ normalize_target # None \/ boost_value # None
    /\ c_pc' = "call"
    /\ c_results' = results
    /\ c_mode' = IF normalize_target # None THEN "normalize" ELSE "boost"
    /\ c_value' = IF normalize_target # None THEN normalize_target ELSE boost_value
    /\ UNCHANGED <<c_valid, c_outdir, c_mkdirs, c_cmds, c_ended, c_success, c_errors>>

\* lines 629-654: analyze_folder has returned; after the summary and the
\* reports process_corrections is called with its list, in mode normalize
\* when --normalize was given, else in mode boost when --boost was given
MainCorrect ==
    /\ pc = "returned"
    /\ c_pc = "idle"
    /\ normalize_target # None \/ boost_value # None
    /\ c_pc' = "call"
    /\ c_results' = ret
    /\ c_mode' = IF normalize_target # None THEN "normalize" ELSE "boost"
    /\ c_value' = IF normalize_target # None THEN normalize_target ELSE boost_value
    /\ UNCHANGED <<c_valid, c_outdir, c_mkdirs, c_cmds, c_ended, c_success, c_errors>>

\* only the discovery of analyze_folder, in a folder whose entries are
\* written in lower, upper and mixed case
DiscEntryNames ==
    << <<"a", ".", "m", "p", "4">>, <<"B", ".", "M", "P", "4">>,
       <<"e", ".", "M", "p", "4">>, <<"c", ".", "w", "a", "v">>,
       <<"n", ".", "t", "x", "t">>, <<"e", ".", "W", "A", "V">>,
       <<"b", ".", "w", "A", "v">> >>
DiscUniverse ==
    {DiscEntryNames[i] : i \in {j \in DOMAIN DiscEntryNames : j <= MaxDiscEntries}}

DiscInit ==
    /\ pc = "start"
    /\ is_dir \in BOOLEAN
    /\ listing \in SUBSET DiscUniverse
    /\ (~is_dir => listing = {})
    /\ workers = DefaultWorkers
    /\ files = <<>>
    /\ submitted = 0
    /\ queue = <<>>
    /\ jobs = <<>>
    /\ results = <<>>
    /\ completed = 0
    /\ progress = <<>>
    /\ yield_order = <<>>
    /\ ret = <<>>

Init == BatchInit /\ ClsIdle /\ MeasIdle /\ CorrIdle /\ MainIdle
Next ==
    \/ Discover /\ UNCHANGED <<clsVars, measVars, corrVars, mainVars>>
    \/ Submit /\ UNCHANGED <<clsVars, measVars, corrVars, mainVars>>
    \/ WorkerStart /\ UNCHANGED <<clsVars, measVars, corrVars, mainVars>>
    \/ WorkerFinish /\ UNCHANGED <<clsVars, measVars, corrVars, mainVars>>
    \/ Collect /\ UNCHANGED <<clsVars, measVars, corrVars, mainVars>>
    \/ ReturnResults /\ UNCHANGED <<clsVars, measVars, corrVars, mainVars>>
Spec == Init /\ [][Next]_vars

\* analyze_folder when the main thread and the worker threads are scheduled
\* fairly and every run of the tool ends: by itself, by an error, or by
\* timeout=300 (line 63)
Fairness ==
    /\ WF_vars(Discover /\ UNCHANGED <<clsVars, measVars, corrVars, mainVars>>)
    /\ WF_vars(Submit /\ UNCHANGED <<clsVars, measVars, corrVars, mainVars>>)
    /\ WF_vars(WorkerStart /\ UNCHANGED <<clsVars, measVars, corrVars, mainVars>>)
    /\ WF_vars(WorkerFinish /\ UNCHANGED <<clsVars, measVars, corrVars, mainVars>>)
    /\ WF_vars(Collect /\ UNCHANGED <<clsVars, measVars, corrVars, mainVars>>)
    /\ WF_vars(ReturnResults /\ UNCHANGED <<clsVars, measVars, corrVars, mainVars>>)
LiveUniverse ==
    {EntryNames[i] : i \in {j \in DOMAIN EntryNames : j <= MaxLiveEntries}}
LiveInit ==
    /\ pc = "start"
    /\ is_dir \in BOOLEAN
    /\ listing \in SUBSET LiveUniverse
    /\ (~is_dir => listing = {})
    /\ workers \in 1 .. MaxWorkers
    /\ files = <<>>
    /\ submitted = 0
    /\ queue = <<>>
    /\ jobs = <<>>
    /\ results = <<>>
    /\ completed = 0
    /\ progress = <<>>
    /\ yield_order = <<>>
    /\ ret = <<>>
InitLive == LiveInit /\ ClsIdle /\ MeasIdle /\ CorrIdle /\ MainIdle
SpecLive == InitLive /\ [][Next]_vars /\ Fairness

InitMeasure == MeasInit /\ ClsIdle /\ BatchIdle /\ CorrIdle /\ MainIdle
NextMeasure ==
    \/ MeasureStart /\ UNCHANGED <<clsVars, batchVars, corrVars, mainVars>>
    \/ MeasureFinish /\ UNCHANGED <<clsVars, batchVars, corrVars, mainVars>>
SpecMeasure == InitMeasure /\ [][NextMeasure]_vars

InitClassify == ClsInit /\ MeasIdle /\ BatchIdle /\ CorrIdle /\ MainIdle
NextClassify == Classify /\ UNCHANGED <<measVars, batchVars, corrVars, mainVars>>
SpecClassify == InitClassify /\ [][NextClassify]_vars

\* process_corrections on its own, given any list analyze_folder returns
InitCorrect == CorrInit /\ ClsIdle /\ MeasIdle /\ BatchIdle /\ MainIdle
NextCorrect ==
    \/ CorrectStart /\ UNCHANGED <<clsVars, measVars, batchVars, mainVars>>
    \/ TranscodeStart /\ UNCHANGED <<clsVars, measVars, batchVars, mainVars>>
    \/ TranscodeEnd /\ UNCHANGED <<clsVars, measVars, batchVars, mainVars>>
    \/ CorrectEnd /\ UNCHANGED <<clsVars, measVars, batchVars, mainVars>>
SpecCorrect == InitCorrect /\ [][NextCorrect]_vars

\* the discovery of analyze_folder on its own
InitDiscover == DiscInit /\ ClsIdle /\ MeasIdle /\ CorrIdle /\ MainIdle
NextDiscover == Discover /\ UNCHANGED <<clsVars, measVars, corrVars, mainVars>>
SpecDiscover == InitDiscover /\ [][NextDiscover]_vars

\* main on a directory: analyze_folder, then process_corrections
InitMain == MainInit /\ ClsIdle /\ MeasIdle /\ CorrIdle
NextMain ==
    \/ Discover /\ UNCHANGED <<clsVars, measVars, corrVars, mainVars>>
    \/ Submit /\ UNCHANGED <<clsVars, measVars, corrVars, mainVars>>
    \/ WorkerStart /\ UNCHANGED <<clsVars, measVars, corrVars, mainVars>>
    \/ WorkerFinish /\ UNCHANGED <<clsVars, measVars, corrVars, mainVars>>
    \/ Collect /\ UNCHANGED <<clsVars, measVars, corrVars, mainVars>>
    \/ ReturnResults /\ UNCHANGED <<clsVars, measVars, corrVars, mainVars>>
    \/ MainCorrect /\ UNCHANGED <<clsVars, measVars, batchVars, mainVars>>
    \/ CorrectStart /\ UNCHANGED <<clsVars, measVars, batchVars, mainVars>>
    \/ TranscodeStart /\ UNCHANGED <<clsVars, measVars, batchVars, mainVars>>
    \/ TranscodeEnd /\ UNCHANGED <<clsVars, measVars, batchVars, mainVars>>
    \/ CorrectEnd /\ UNCHANGED <<clsVars, measVars, batchVars, mainVars>>
SpecMain == InitMain /\ [][NextMain]_vars

(***************************************************************************)
(* C1: for a non-empty set of discovered files, any pool width and any     *)
(* completion order, the returned list holds exactly one Measurement per   *)
(* discovered file: none missing, none twice.                              *)
(***************************************************************************)
EntriesFor(rs, name) == {j \in DOMAIN rs : SortKey(rs[j]) = name}

C1_OnePerFile ==
    (pc = "returned" /\ files # <<>>) =>
        /\ Len(ret) = Len(files)
        /\ \A i \in DOMAIN files : Cardinality(EntriesFor(ret, files[i])) = 1

\* three files, two workers, jobs completed in another order than submitted,
\* a failure and a success among them
C1_Witness ==
    /\ pc = "returned"
    /\ Len(files) = 3
    /\ workers = 2
    /\ yield_order = <<3, 1, 2>>
    /\ \E j \in DOMAIN ret : IsFailure(ret[j])
    /\ \E j \in DOMAIN ret : IsSuccess(ret[j])

(***************************************************************************)
(* C2: the returned list of a non-empty file set is in ascending order of  *)
(* display name, whatever order the jobs completed in.                     *)
(***************************************************************************)
C2_SortedByName ==
    (pc = "returned" /\ files # <<>>) =>
        \A j \in 1 .. Len(ret) - 1 :
            StrLess(SortKey(ret[j]), SortKey(ret[j + 1]))

\* the jobs completed in descending order and the list has been returned
C2_Witness ==
    /\ pc = "returned"
    /\ yield_order = <<3, 2, 1>>
    /\ Len(ret) = 3

(***************************************************************************)
(* C5: whatever the tool does, analyze_audio_level ends by returning a     *)
(* Measurement, never by raising, so future.result() never raises and      *)
(* analyze_folder is never ended by one file's failure.                    *)
(***************************************************************************)
C5_NoEscape ==
    /\ pc # "raised"
    /\ \A i \in DOMAIN jobs :
         jobs[i].st \in {"finished", "yielded"}
           => (jobs[i].out.kind = "return" /\ "fichier" \in DOMAIN jobs[i].out.value)

\* a batch with a spawn failure and an output that is no number has returned
C5_Witness ==
    /\ pc = "returned"
    /\ \E i \in DOMAIN jobs : jobs[i].run = SpawnFailure
    /\ \E i \in DOMAIN jobs :
         /\ jobs[i].run.kind = "completed"
         /\ BothMarkers(jobs[i].run)
         /\ ~float_ok(jobs[i].run.mean_volume)

(***************************************************************************)
(* C7: in a batch, the files whose invocation timed out are exactly the    *)
(* files whose Measurement is the failure "Timeout"; every other file's    *)
(* own result is in the returned list, which has one entry per file; one   *)
(* timeout gives exactly one such failure.                                 *)
(***************************************************************************)
TimedOutJobs == {i \in DOMAIN jobs : jobs[i].run = TimedOut}
TimeoutEntries ==
    {j \in DOMAIN ret : IsFailure(ret[j]) /\ ret[j].error = "Timeout"}

C7_TimeoutIsolated ==
    (pc = "returned" /\ files # <<>>) =>
        /\ Len(ret) = Len(files)
        /\ \A i \in DOMAIN jobs :
             (i \in TimedOutJobs)
               <=> (\E j \in TimeoutEntries : ret[j].fichier = files[i])
        /\ \A i \in DOMAIN jobs \ TimedOutJobs :
             \E j \in DOMAIN ret : ret[j] = jobs[i].out.value
        /\ Cardinality(TimedOutJobs) = 1 => Cardinality(TimeoutEntries) = 1

\* one of three files timed out, another was measured
C7_Witness ==
    /\ pc = "returned"
    /\ Len(files) = 3
    /\ Cardinality(TimedOutJobs) = 1
    /\ Cardinality(TimeoutEntries) = 1
    /\ \E j \in DOMAIN ret : IsSuccess(ret[j])

(***************************************************************************)
(* C10: when the folder is no directory or holds no matching file,         *)
(* analyze_folder returns a list of exactly one error result; no job is    *)
(* submitted and nothing is raised.                                        *)
(***************************************************************************)
NoMatchingFile ==
    \A n \in listing : \A i \in DOMAIN DefaultExtensions :
        /\ ~EndsWith(n, DefaultExtensions[i])
        /\ ~EndsWith(n, Upper(DefaultExtensions[i]))

C10_FailFast ==
    (pc # "idle" /\ (~is_dir \/ NoMatchingFile)) =>
        /\ submitted = 0
        /\ jobs = <<>>
        /\ pc \in {"start", "returned"}
        /\ pc = "returned" => (Len(ret) = 1 /\ IsFailure(ret[1]))

\* a directory with entries, none of them matching, has been analysed
C10_Witness ==
    /\ pc = "returned"
    /\ is_dir
    /\ listing # {}
    /\ NoMatchingFile
    /\ Len(ret) = 1

(***************************************************************************)
(* C11: process_corrections starts the transcode exactly once for each     *)
(* successful Measurement of the list and never for a failure: no command  *)
(* reads or writes a failed file, none is started twice.                   *)
(***************************************************************************)
CmdsFor(r) == {k \in DOMAIN c_cmds : c_cmds[k].output.name = SortKey(r)}

C11_OncePerSuccess ==
    c_pc # "idle" =>
        \A j \in DOMAIN c_results :
            /\ IsFailure(c_results[j]) => CmdsFor(c_results[j]) = {}
            /\ IsSuccess(c_results[j]) =>
                 /\ Cardinality(CmdsFor(c_results[j])) <= 1
                 /\ \A k \in CmdsFor(c_results[j]) :
                      c_cmds[k].input = c_results[j].chemin
                 /\ c_pc = "done" => Cardinality(CmdsFor(c_results[j])) = 1

\* a list with a failure and two successes has been corrected, and the
\* transcode that failed was not started again
C11_Witness ==
    /\ c_pc = "done"
    /\ Len(c_results) = 3
    /\ IsFailure(c_results[2])
    /\ Len(c_cmds) = 2
    /\ c_ended = <<FALSE, TRUE>>

(***************************************************************************)
(* C12: the gain of a file's transcode is computed from that file's own    *)
(* Measurement and from (mode, value): in mode normalize it is value minus *)
(* the file's mean level, so mean level plus gain is the target; in mode   *)
(* boost it is value for every file.                                       *)
(***************************************************************************)
MeasurementOf(cmd) ==
    CHOOSE r \in {c_results[j] : j \in DOMAIN c_results} :
        IsSuccess(r) /\ r.chemin = cmd.input

C12_Gain ==
    \A k \in DOMAIN c_cmds :
        /\ c_mode = "normalize" =>
             Add(MeasurementOf(c_cmds[k]).niveau_moyen_db, c_cmds[k].gain) = c_value
        /\ c_mode = "boost" => c_cmds[k].gain = c_value

\* two files of different levels normalised to -24 dB: gains 11 and 29
C12_Witness ==
    /\ c_mode = "normalize"
    /\ c_value = [num |-> -24, den |-> 1]
    /\ Len(c_cmds) = 2
    /\ c_cmds[1].gain = [num |-> 11, den |-> 1]
    /\ c_cmds[2].gain = [num |-> 29, den |-> 1]

(***************************************************************************)
(* C13: a failed transcode adds one to the failure counter and the loop    *)
(* goes on; at every step success + errors is the number of files          *)
(* processed, and at the end the number of successful Measurements.        *)
(***************************************************************************)
CountOf(bs, b) == Cardinality({k \in DOMAIN bs : bs[k] = b})

C13_Counters ==
    c_pc # "idle" =>
        /\ c_pc = "raised" => c_cmds = <<>>
        /\ c_success + c_errors = Len(c_ended)
        /\ c_success = CountOf(c_ended, TRUE)
        /\ c_errors = CountOf(c_ended, FALSE)
        /\ c_pc = "done" =>
             c_success + c_errors = Len(SelectSeq(c_results, IsSuccess))

\* the first transcode failed, the second was still done
C13_Witness ==
    /\ c_pc = "done"
    /\ c_ended = <<FALSE, TRUE>>
    /\ c_success = 1
    /\ c_errors = 1

(***************************************************************************)
(* C19: the correction is sequential: at most one transcode is in flight,  *)
(* a transcode starts only when every earlier one has ended, and the files *)
(* are taken in the order of the list.                                     *)
(***************************************************************************)
InFlight == Len(c_cmds) - Len(c_ended)

C19_Sequential ==
    c_pc \notin {"idle", "raised"} =>
        /\ InFlight \in {0, 1}
        /\ InFlight = 1 <=> c_pc = "transcoding"
        /\ \A k \in DOMAIN c_cmds :
             c_cmds[k].input = SelectSeq(c_results, IsSuccess)[k].chemin

\* the second transcode is in flight, the first has ended
C19_Witness ==
    /\ c_pc = "transcoding"
    /\ Len(c_cmds) = 2
    /\ Len(c_ended) = 1

(***************************************************************************)
(* C14: what analyze_audio_level returns is either a success (mean level,  *)
(* max level and band, no error) or a failure (an error, none of the       *)
(* success fields), never both and never neither; the band of a success    *)
(* is classify_level of its own mean level.                                *)
(***************************************************************************)
SuccessFields ==
    {"chemin", "niveau_moyen_db", "niveau_max_db", "classification", "color", "emoji"}

C14_TaggedUnion ==
    m_pc = "done" =>
        /\ m_out.kind = "return"
        /\ "fichier" \in DOMAIN m_out.value
        /\ IsFailure(m_out.value) => DOMAIN m_out.value \cap SuccessFields = {}
        /\ IsSuccess(m_out.value) =>
             /\ SuccessFields \subseteq DOMAIN m_out.value
             /\ m_out.value.classification
                  = classify_level(m_out.value.niveau_moyen_db).label
             /\ m_out.value.color
                  = classify_level(m_out.value.niveau_moyen_db).color

\* a success whose mean level and max level lie in different bands
C14_Witness ==
    /\ m_pc = "done"
    /\ m_out.kind = "return"
    /\ IsSuccess(m_out.value)
    /\ m_out.value.classification = "MOYEN"
    /\ classify_level(m_out.value.niveau_max_db).label = "ELEVE"

(***************************************************************************)
(* C15: the returned list is determined by the file set and by what the    *)
(* tool did for each file: its i-th element is the Measurement of the i-th *)
(* file in name order, whatever the pool width and the completion order;   *)
(* two runs that agree on the files and on the tool's outcomes therefore   *)
(* return identical lists.                                                 *)
(***************************************************************************)
C15_Deterministic ==
    (pc = "returned" /\ files # <<>>) =>
        /\ Len(ret) = Len(files)
        /\ \A i \in DOMAIN files :
             /\ ret[i] = jobs[i].out.value
             /\ ret[i].fichier = SortedSeq({files[k] : k \in DOMAIN files})[i]

\* three workers, the jobs completed in the order 2, 3, 1
C15_Witness ==
    /\ pc = "returned"
    /\ workers = 3
    /\ yield_order = <<2, 3, 1>>
    /\ ret[1] = jobs[1].out.value

(***************************************************************************)
(* C17: the number of tool invocations in flight never exceeds the pool    *)
(* width; every discovered file is submitted once: a job is in the queue   *)
(* at most once, only while no worker has taken it, and a job that has     *)
(* been taken or has ended is never queued or run again.                   *)
(***************************************************************************)
QueuedAt(i) == {q \in DOMAIN queue : queue[q] = i}
Rank(st) ==
    CASE st = "pending" -> 0 [] st = "running" -> 1
      [] st = "finished" -> 2 [] st = "yielded" -> 3

C17_PoolState ==
    /\ Cardinality(Running) <= workers
    /\ Len(jobs) = submitted
    /\ submitted <= Len(files)
    /\ pc \in {"collect", "returned"} => submitted = Len(files)
    /\ \A i \in DOMAIN jobs :
         Cardinality(QueuedAt(i)) = (IF jobs[i].st = "pending" THEN 1 ELSE 0)

C17_NoResubmit ==
    \A i \in DOMAIN jobs :
        /\ i \in DOMAIN jobs'
        /\ Rank(jobs[i].st) <= Rank(jobs'[i].st)

C17_BoundedPool == [](C17_PoolState) /\ [][C17_NoResubmit]_vars

\* the pool of two workers is full while a third job waits in the queue
C17_Witness ==
    /\ workers = 2
    /\ Cardinality(Running) = 2
    /\ queue = <<3>>

(***************************************************************************)
(* C18: the counter goes up by one for each future handled, so it always   *)
(* equals the number of Measurements collected, and the progress values    *)
(* emitted are 1, 2, ..., N in this order, each with the total N.          *)
(***************************************************************************)
C18_Progress ==
    pc \in {"submit", "collect", "returned"} =>
        /\ completed = Len(yield_order)
        /\ completed = Len(results)
        /\ progress = [k \in 1 .. completed |-> <<k, Len(files)>>]
        /\ pc = "returned" => completed = Len(files)

\* two futures were finished at once and both have been counted
C18_Witness ==
    /\ pc = "returned"
    /\ workers = 2
    /\ progress = <<<<1, 3>>, <<2, 3>>, <<3, 3>>>>
    /\ yield_order = <<2, 1, 3>>

(***************************************************************************)
(* C16 as stated: an entry of the folder is discovered if and only if its  *)
(* name ends with one of the extensions when case is ignored (lower,       *)
(* upper or mixed), and it enters the list of files once.                  *)
(***************************************************************************)
MatchesIgnoringCase(n) ==
    \E i \in DOMAIN DefaultExtensions :
        EndsWith(Upper(n), Upper(DefaultExtensions[i]))

C16_CaseInsensitive ==
    (pc = "submit" \/ (pc = "returned" /\ is_dir)) =>
        \A n \in listing :
            Cardinality({k \in DOMAIN files : files[k] = n})
              = (IF MatchesIgnoringCase(n) THEN 1 ELSE 0)

(***************************************************************************)
(* C20: in a directory run process_corrections is called, and so a         *)
(* transcode started, only once analyze_folder has returned: no job is     *)
(* queued or running, every Measurement has been collected and the list    *)
(* sorted, and the list corrected is that list.                            *)
(***************************************************************************)
C20_PhasesOrdered ==
    c_pc # "idle" =>
        /\ pc = "returned"
        /\ queue = <<>>
        /\ \A i \in DOMAIN jobs : jobs[i].st = "yielded"
        /\ Len(jobs) = Len(files)
        /\ c_results = ret
        /\ files # <<>> =>
             /\ Len(c_results) = Len(files)
             /\ \A j \in 1 .. Len(c_results) - 1 :
                  StrLess(SortKey(c_results[j]), SortKey(c_results[j + 1]))
        /\ \A k \in DOMAIN c_cmds :
             \E j \in DOMAIN ret :
                 IsSuccess(ret[j]) /\ ret[j].chemin = c_cmds[k].input

\* after a batch of three files that completed out of order, the second
\* transcode is in flight
C20_Witness ==
    /\ c_pc = "transcoding"
    /\ Len(c_cmds) = 2
    /\ Len(files) = 3
    /\ yield_order = <<3, 1, 2>>

(***************************************************************************)
(* C22: when the list holds no successful Measurement process_corrections  *)
(* returns without calling mkdir and without starting a transcode; when it *)
(* holds one, the output directory is there before the first transcode,    *)
(* and a directory already there is no error.                              *)
(***************************************************************************)
C22_OutputDir ==
    c_pc \notin {"idle", "call"} =>
        /\ SelectSeq(c_results, IsSuccess) = <<>> =>
             /\ c_pc = "done"
             /\ c_mkdirs = <<>>
             /\ c_cmds = <<>>
        /\ SelectSeq(c_results, IsSuccess) # <<>> =>
             /\ Len(c_mkdirs) = 1
             /\ c_mkdirs[1] \in {"absent", "dir"} =>
                  /\ c_pc # "raised"
                  /\ c_outdir = "dir"
             /\ c_cmds # <<>> => c_outdir = "dir"
             /\ \A k \in DOMAIN c_cmds :
                  c_cmds[k].output.parent = output_dir(c_mode, c_value)

\* the directory normalized_24dB was already there and the first transcode
\* has been started into it
C22_Witness ==
    /\ c_mkdirs = <<"dir">>
    /\ c_mode = "normalize"
    /\ c_pc = "transcoding"
    /\ Len(c_cmds) = 1
    /\ c_cmds[1].output.parent.name = <<"normalized_", 24, "dB">>

(***************************************************************************)
(* C21: when every run of the tool ends and the threads are scheduled      *)
(* fairly, analyze_folder returns; every job submitted is run to its end   *)
(* and collected, and a job in the queue is always taken by a worker.      *)
(***************************************************************************)
C21_Returns ==
    /\ <>(pc = "returned")
    /\ (queue # <<>>) ~> (queue = <<>>)
    /\ [](pc = "returned" =>
            /\ queue = <<>>
            /\ Len(jobs) = Len(files)
            /\ \A i \in DOMAIN jobs : jobs[i].st = "yielded"
            /\ yield_order # <<>> => Len(ret) = Len(jobs))

\* three files went through a single worker, one of them timed out, and
\* analyze_folder has returned
C21_Witness ==
    /\ pc = "returned"
    /\ workers = 1
    /\ Len(ret) = 3
    /\ \E i \in DOMAIN jobs : jobs[i].run = TimedOut
    /\ \A i \in DOMAIN jobs : jobs[i].st = "yielded"

(***************************************************************************)
(* C6 as stated: when the invocation fails for a reason other than         *)
(* timeout (non-zero exit code, spawn failure, unexpected exception) the   *)
(* call returns a failure whose error is the underlying message, not a     *)
(* success and not one of the other failure kinds.                         *)
(***************************************************************************)
OtherFailure(run) ==
    \/ run.kind = "completed" /\ run.returncode # 0
    \/ run.kind \in {"FileNotFoundError", "UnicodeDecodeError"}

C6_Original ==
    (m_pc = "done" /\ m_exists /\ OtherFailure(m_run)) =>
        /\ m_out.kind = "return"
        /\ IsFailure(m_out.value)
        /\ m_out.value.error \notin OwnMessages

(***************************************************************************)
(* C6 amended: when subprocess.run or float() raises an exception other    *)
(* than the timeout (spawn failure, undecodable output, a captured text    *)
(* that is no number) the call returns a failure whose error is that       *)
(* exception's message. A non-zero exit code raises nothing and is not     *)
(* read: such a run gives "Pas de piste audio" when a marker is missing    *)
(* and a success Measurement when both markers carry numbers.              *)
(***************************************************************************)
C6_ToolError ==
    (m_pc = "done" /\ m_exists) =>
        /\ m_run.kind \in {"FileNotFoundError", "UnicodeDecodeError"}
             => m_out = Return([fichier |-> m_path.name, error |-> m_run.msg])
        /\ (/\ m_run.kind = "completed"
            /\ BothMarkers(m_run)
            /\ ~(float_ok(m_run.mean_volume) /\ float_ok(m_run.max_volume)))
             => m_out = Return([fichier |-> m_path.name,
                                error |-> "could not convert string to float"])
        /\ (m_run.kind = "completed" /\ m_run.returncode # 0 /\ ~BothMarkers(m_run))
             => m_out = Return([fichier |-> m_path.name,
                                error |-> "Pas de piste audio"])
        /\ (/\ m_run.kind = "completed"
            /\ m_run.returncode # 0
            /\ BothMarkers(m_run)
            /\ float_ok(m_run.mean_volume)
            /\ float_ok(m_run.max_volume))
             => (m_out.kind = "return" /\ IsSuccess(m_out.value))

\* an undecodable output has been reported with the exception's message
C6_Witness ==
    /\ m_pc = "done"
    /\ m_run = DecodeFailure
    /\ m_out = Return([fichier |-> m_path.name, error |-> DecodeFailure.msg])

(***************************************************************************)
(* C8: when the tool has run and its diagnostic text lacks the mean_volume *)
(* or the max_volume marker, the call returns the failure "Pas de piste    *)
(* audio", whatever the exit code; every success Measurement comes from a  *)
(* run whose text holds both markers.                                      *)
(***************************************************************************)
C8_NoAudioStream ==
    m_pc = "done" =>
        /\ (m_exists /\ m_run.kind = "completed" /\ ~BothMarkers(m_run))
             => m_out = Return([fichier |-> m_path.name,
                                error |-> "Pas de piste audio"])
        /\ (m_out.kind = "return" /\ IsSuccess(m_out.value))
             => (m_run.kind = "completed" /\ BothMarkers(m_run))

\* exit code 0, mean_volume there, max_volume missing: no audio stream
C8_Witness ==
    /\ m_pc = "done"
    /\ m_run.kind = "completed"
    /\ m_run.returncode = 0
    /\ m_run.mean_volume # NoMatch
    /\ m_run.max_volume = NoMatch
    /\ m_out.value.error = "Pas de piste audio"

(***************************************************************************)
(* C9: a path that does not exist gives the failure "Fichier non trouve"   *)
(* and subprocess.run is never called for it.                              *)
(***************************************************************************)
C9_NotFound ==
    /\ ~m_exists => m_spawned = 0
    /\ (m_pc = "done" /\ ~m_exists)
         => m_out = Return([fichier |-> m_path.name, error |-> "Fichier non trouve"])

\* the call on a missing path has returned
C9_Witness ==
    /\ m_pc = "done"
    /\ ~m_exists
    /\ m_out.kind = "return"

(***************************************************************************)
(* C3: a mean level is classified by the half-open intervals               *)
(* (-inf,-50), [-50,-42), [-42,-36), [-36,-30), [-30,-24), [-24,+inf);     *)
(* a level equal to a threshold gets the higher of the two bands.          *)
(***************************************************************************)
IntervalBand(v) ==
    IF v.num < -50 * v.den THEN "TRES BAS"
    ELSE IF -50 * v.den <= v.num /\ v.num < -42 * v.den THEN "BAS"
    ELSE IF -42 * v.den <= v.num /\ v.num < -36 * v.den THEN "MOYEN-"
    ELSE IF -36 * v.den <= v.num /\ v.num < -30 * v.den THEN "MOYEN"
    ELSE IF -30 * v.den <= v.num /\ v.num < -24 * v.den THEN "MOYEN+"
    ELSE "ELEVE"

BandLabels == {Bands[i] : i \in DOMAIN Bands}

C4_TotalMonotone ==
    cls_pc = "done" =>
        /\ level_a.label \in BandLabels
        /\ level_b.label \in BandLabels
        /\ (mean_a.num * mean_b.den <= mean_b.num * mean_a.den
              => BandRank(level_a.label) <= BandRank(level_b.label))

\* two levels in different bands have been classified
C4_Witness ==
    /\ cls_pc = "done"
    /\ mean_a.num * mean_b.den < mean_b.num * mean_a.den
    /\ BandRank(level_a.label) < BandRank(level_b.label)

====
